---- MODULE Spec2Model ----
(***************************************************************************)
(* Model of package mcpi (src/web.go): the coordinator goroutine           *)
(* server.run, the public calls Plot / Wait / Quit, the page handler       *)
(* plotHandle and the websocket handlers dataHandler.                      *)
(*                                                                         *)
(* All five channels of the server are unbuffered (newServer, lines 80-84),*)
(* so a send and its receive happen together: each rendezvous is one       *)
(* action.  A goroutine's position between two channel operations is its   *)
(* pc.  The body of one iteration of run's loop is cut only where it       *)
(* blocks, at the send on srv.plots.                                       *)
(*                                                                         *)
(* Coordinates are held in halves: the pair <<a, b>> is the point          *)
(* (a/2, b/2).  All values used are exact in float64, so x*x + y*y < 1 is  *)
(* a*a + b*b < 4.                                                          *)
(***************************************************************************)
EXTENDS Integers, Sequences, FiniteSets, TLC

VARIABLES
    n,        \* srv.n
    in,       \* srv.in
    out,      \* srv.out
    runPc,    \* position of server.run
    snap,     \* the wplot run is sending on srv.plots
    cpc,      \* position of each calling goroutine
    carg,     \* the sample a caller blocked in Plot is sending
    hpc,      \* position of each dataHandler
    hdata,    \* the wplot a dataHandler is sending on its websocket
    exited,   \* log.Fatal was called: the process is gone
    \* history (not program state)
    handed,   \* samples handed over by Plot calls that returned, in order
    started,  \* number of Plot calls begun
    renders,  \* number of calls of plot()
    got,      \* per dataHandler, the n tags of the wplots it received
    hearly,   \* the dataHandler attached before any Plot call began
    hstale,   \* the wplot in flight, or the one the dataHandler holds, was
              \* rendered before it attached
    served,   \* number of page requests served
    quitInvoked, \* some caller has entered Quit
    quitReturned, \* some caller's Quit has returned
    preQuit,  \* the caller's pending Plot call began before any Quit
    finalGot, \* the forced final wplot was received by a dataHandler
    probe,    \* input of the cadence decision evaluated on its own
    fired,    \* its result
    sizes,    \* <<n, len(in), len(out)>> given to plot() evaluated on its own
    drawn     \* what plot() makes of them

vars == <<n, in, out, runPc, snap, cpc, carg, hpc, hdata, exited,
          handed, started, renders, got, hearly, hstale, served, quitInvoked,
          quitReturned, preQuit, finalGot, probe, fired, sizes, drawn>>

progVars == <<n, in, out, runPc, snap, cpc, carg, hpc, hdata, exited,
              handed, started, renders, got, hearly, hstale, served, quitInvoked,
              quitReturned, preQuit, finalGot>>

----------------------------------------------------------------------------
\* Bounds of the model

\* Plot calls begun in a run of Spec (two callers, two subscribers)
MaxPlots == 2
\* Plot calls begun in a run of SpecSamples (one caller, one subscriber)
MaxSamplePlots == 3
\* Plot calls begun in a run of SpecLong (one caller, one subscriber)
MaxLong == 11
\* page requests served
MaxPages == 1

Callers == {"main", "worker"}
Subs == {"ws1", "ws2"}
\* (0.5,0.5) and (1,0), which is on the circle
Samples == {<<1, 1>>, <<2, 0>>}

\* (0,0), (0.5,0.5), (1,0), (2,2)
AllSamples == {<<0, 0>>, <<1, 1>>, <<2, 0>>, <<4, 4>>}

LongCallers == {"main"}
LongSubs == {"ws1"}
LongSamples == {<<1, 1>>}

----------------------------------------------------------------------------
\* Pure parts of the code

pmax == 1000000

min(a, b) == IF a < b THEN a ELSE b

Prefix(s, k) == SubSeq(s, 1, k)

\* d2 := x*x + y*y, times 4
d2(v) == v[1] * v[1] + v[2] * v[2]

\* variant: points on the circle counted as inner
InnerClosed(v) == d2(v) <= 4

\* case d2 < 1
Inner(v) == d2(v) < 4

\* variant: the count moved twice for one sample
BumpTwice(k) == k + 2

\* srv.n++
Bump(k) == k + 1

\* variant: the first branch taken in every decade
shouldSnapshotEvery(k) == k % 1 = 0

\* variant: the last branch guarded by srv.n >= 1e7
shouldSnapshotGE(k) ==
    IF k < 10 THEN k % 1 = 0
    ELSE IF k < 100 THEN k % 10 = 0
    ELSE IF k < 1000 THEN k % 100 = 0
    ELSE IF k < 10000 THEN k % 1000 = 0
    ELSE IF k < 100000 THEN k % 10000 = 0
    ELSE IF k < 1000000 THEN k % 100000 = 0
    ELSE IF k < 10000000 THEN k % 1000000 = 0
    ELSE k % 10000000 = 0

\* the switch on srv.n: TRUE when a branch sends plot(...) on srv.plots
shouldSnapshot(k) ==
    IF k < 10 THEN k % 1 = 0
    ELSE IF k < 100 THEN k % 10 = 0
    ELSE IF k < 1000 THEN k % 100 = 0
    ELSE IF k < 10000 THEN k % 1000 = 0
    ELSE IF k < 100000 THEN k % 10000 = 0
    ELSE IF k < 1000000 THEN k % 100000 = 0
    ELSE IF k < 10000000 THEN k % 1000000 = 0
    ELSE IF k > 10000000 THEN k % 10000000 = 0
    ELSE FALSE

\* variant: the outer scatter capped like the inner one
capOutFull(l) == min(pmax, l)

\* in[:min(pmax, len(in))] and out[:min(pmax/2, len(out))]: the lengths drawn
capIn(l) == min(pmax, l)

capOut(l) == min(pmax \div 2, l)

\* what plot() computes from n and the two lengths: the title's n and pi (as
\* the fraction 4*len(in) / n) and the lengths of the two scatters
plotSizes(k, li, lo) ==
    [n |-> k, pi |-> <<4 * li, k>>, sin |-> capIn(li), sout |-> capOut(lo)]

\* plot() not evaluated yet
NotDrawn == [n |-> -1, pi |-> <<0, 0>>, sin |-> 0, sout |-> 0]

\* plot(n, in, out): the title's n and pi and the two scatters; the PNG and
\* base64 encoding of it is opaque
plot(k, i, o) ==
    LET s == plotSizes(k, Len(i), Len(o))
    IN  [n |-> s.n,
         pi |-> s.pi,
         sin |-> Prefix(i, s.sin),
         sout |-> Prefix(o, s.sout)]

NoPlot == [n |-> -1, pi |-> <<0, 0>>, sin |-> <<>>, sout |-> <<>>]

NoSample == <<-1, -1>>

----------------------------------------------------------------------------
\* newServer: empty sets, n = 0, run at the top of its loop; no caller has
\* called anything and no websocket is connected
ProgInit ==
    /\ n = 0
    /\ in = <<>>
    /\ out = <<>>
    /\ runPc = "select"
    /\ snap = NoPlot
    /\ cpc = [c \in Callers |-> "idle"]
    /\ carg = [c \in Callers |-> NoSample]
    /\ hpc = [h \in Subs |-> "none"]
    /\ hdata = [h \in Subs |-> NoPlot]
    /\ exited = FALSE
    /\ handed = <<>>
    /\ started = 0
    /\ renders = 0
    /\ got = [h \in Subs |-> <<>>]
    /\ hearly = [h \in Subs |-> FALSE]
    /\ hstale = [h \in Subs |-> FALSE]
    /\ served = 0
    /\ quitInvoked = FALSE
    /\ quitReturned = FALSE
    /\ preQuit = [c \in Callers |-> FALSE]
    /\ finalGot = FALSE

Init ==
    /\ ProgInit
    /\ probe = 0
    /\ fired = "unset"
    /\ sizes = <<0, 0, 0>>
    /\ drawn = NotDrawn

----------------------------------------------------------------------------
\* The callers

\* Plot(x, y) reaches srv.datac <- [2]float64{x, y} and blocks there
CallPlot(c, v, maxPlots) ==
    /\ ~exited
    /\ cpc[c] = "idle"
    /\ started < maxPlots
    /\ cpc' = [cpc EXCEPT ![c] = "Plot"]
    /\ carg' = [carg EXCEPT ![c] = v]
    /\ started' = started + 1
    /\ preQuit' = [preQuit EXCEPT ![c] = ~quitInvoked]
    /\ UNCHANGED <<n, in, out, runPc, snap, hpc, hdata, exited, handed,
                   renders, got, hearly, hstale, served, quitInvoked, quitReturned,
                   finalGot, probe, fired, sizes, drawn>>

\* Wait() reaches <-srv.wait and blocks there
CallWait(c) ==
    /\ ~exited
    /\ cpc[c] = "idle"
    /\ cpc' = [cpc EXCEPT ![c] = "Wait"]
    /\ UNCHANGED <<n, in, out, runPc, snap, carg, hpc, hdata, exited,
                   handed, started, renders, got, hearly, hstale, served, quitInvoked,
                   quitReturned, preQuit, finalGot, probe, fired, sizes, drawn>>

\* Quit() logs the runtime, reaches srv.done <- 1 and blocks there
CallQuit(c) ==
    /\ ~exited
    /\ cpc[c] = "idle"
    /\ cpc' = [cpc EXCEPT ![c] = "QuitDone"]
    /\ quitInvoked' = TRUE
    /\ UNCHANGED <<n, in, out, runPc, snap, carg, hpc, hdata, exited,
                   handed, started, renders, got, hearly, hstale, served, quitReturned,
                   preQuit, finalGot, probe, fired, sizes, drawn>>

----------------------------------------------------------------------------
\* The coordinator, server.run

\* variant: the wplot of a sample left for later, run going back to its select
RenderAsync(k, i, o, pc) ==
    /\ renders' = renders + 1
    /\ snap' = plot(k, i, o)
    /\ runPc' = IF pc = "final" THEN pc ELSE runPc
    /\ exited' = exited

\* variant: an error of plot() logged with log.Print, run carrying on
RenderLogOnly(k, i, o, pc) ==
    /\ renders' = renders + 1
    /\ \E ok \in BOOLEAN :
          IF ok
          THEN /\ snap' = plot(k, i, o)
               /\ runPc' = pc
               /\ exited' = exited
          ELSE /\ snap' = snap
               /\ runPc' = IF pc = "final" THEN "sleep" ELSE runPc
               /\ exited' = exited

\* a call of plot() by run: it returns the wplot, which run then sends on
\* srv.plots (run moves to pc), or one of its log.Fatal(err) ends the process
Render(k, i, o, pc) ==
    /\ renders' = renders + 1
    /\ \E ok \in BOOLEAN :
          IF ok
          THEN /\ snap' = plot(k, i, o)
               /\ runPc' = pc
               /\ exited' = exited
          ELSE /\ snap' = snap
               /\ runPc' = runPc
               /\ exited' = TRUE

\* case v := <-srv.datac, up to the end of the iteration or to the send on
\* srv.plots; the Plot call of c returns
RunRecv(c) ==
    /\ ~exited
    /\ runPc = "select"
    /\ cpc[c] = "Plot"
    /\ LET v == carg[c]
           k == Bump(n)
           i == IF Inner(v) THEN Append(in, v) ELSE in
           o == IF Inner(v) THEN out ELSE Append(out, v)
       IN  /\ n' = k
           /\ in' = i
           /\ out' = o
           /\ handed' = Append(handed, v)
           /\ IF shouldSnapshot(k)
              THEN Render(k, i, o, "publish")
              ELSE UNCHANGED <<runPc, snap, exited, renders>>
    /\ cpc' = [cpc EXCEPT ![c] = "idle"]
    /\ carg' = [carg EXCEPT ![c] = NoSample]
    /\ UNCHANGED <<hpc, hdata, started, got, hearly, hstale, served,
                   quitInvoked, quitReturned, preQuit, finalGot, probe, fired, sizes, drawn>>

\* variant: the final snapshot left to the cadence
RunDoneNoForce(c) ==
    /\ ~exited
    /\ runPc = "select"
    /\ cpc[c] = "QuitDone"
    /\ cpc' = [cpc EXCEPT ![c] = "QuitWait"]
    /\ IF shouldSnapshot(n)
       THEN Render(n, in, out, "final")
       ELSE runPc' = "sleep" /\ UNCHANGED <<snap, exited, renders>>
    /\ UNCHANGED <<n, in, out, carg, hpc, hdata, handed, started, got,
                   hearly, hstale, served, quitInvoked, quitReturned, preQuit,
                   finalGot, probe, fired, sizes, drawn>>

\* variant: no final snapshot when the cadence already produced one at n
RunDoneCadence(c) ==
    /\ ~exited
    /\ runPc = "select"
    /\ cpc[c] = "QuitDone"
    /\ cpc' = [cpc EXCEPT ![c] = "QuitWait"]
    /\ IF n > 0 /\ shouldSnapshot(n)
       THEN runPc' = "sleep" /\ UNCHANGED <<snap, exited, renders>>
       ELSE Render(n, in, out, "final")
    /\ UNCHANGED <<n, in, out, carg, hpc, hdata, handed, started, got,
                   hearly, hstale, served, quitInvoked, quitReturned, preQuit,
                   finalGot, probe, fired, sizes, drawn>>

\* case <-srv.done: the final plot(); the Quit call of c moves on to <-srv.quit
RunDone(c) ==
    /\ ~exited
    /\ runPc = "select"
    /\ cpc[c] = "QuitDone"
    /\ cpc' = [cpc EXCEPT ![c] = "QuitWait"]
    /\ Render(n, in, out, "final")
    /\ UNCHANGED <<n, in, out, carg, hpc, hdata, handed, started, got,
                   hearly, hstale, served, quitInvoked, quitReturned, preQuit,
                   finalGot, probe, fired, sizes, drawn>>

\* variant: the wplot broadcast to every dataHandler waiting in its range
DeliverAll(h) ==
    /\ ~exited
    /\ runPc \in {"publish", "final"}
    /\ hpc[h] = "range"
    /\ hpc' = [g \in Subs |-> IF hpc[g] = "range" THEN "send" ELSE hpc[g]]
    /\ hdata' = [g \in Subs |-> IF hpc[g] = "range" THEN snap ELSE hdata[g]]
    /\ got' = [g \in Subs |->
                 IF hpc[g] = "range" THEN Append(got[g], snap.n) ELSE got[g]]
    /\ snap' = NoPlot
    /\ runPc' = IF runPc = "publish" THEN "select" ELSE "sleep"
    /\ finalGot' = (finalGot \/ runPc = "final")
    /\ hstale' = [g \in Subs |-> hpc[g] = "range" /\ hstale[g]]
    /\ UNCHANGED <<n, in, out, cpc, carg, exited, handed, started,
                   renders, hearly, served, quitInvoked, quitReturned, preQuit,
                   probe, fired, sizes, drawn>>

\* variant: a handler's unsent wplot overwritten by the newer one
DeliverReplace(h) ==
    /\ ~exited
    /\ runPc \in {"publish", "final"}
    /\ hpc[h] \in {"range", "send"}
    /\ hpc' = [hpc EXCEPT ![h] = "send"]
    /\ hdata' = [hdata EXCEPT ![h] = snap]
    /\ got' = [got EXCEPT ![h] = Append(@, snap.n)]
    /\ snap' = NoPlot
    /\ runPc' = IF runPc = "publish" THEN "select" ELSE "sleep"
    /\ finalGot' = (finalGot \/ runPc = "final")
    /\ hstale' = [g \in Subs |-> g = h /\ hstale[h]]
    /\ UNCHANGED <<n, in, out, cpc, carg, exited, handed, started,
                   renders, hearly, served, quitInvoked, quitReturned, preQuit,
                   probe, fired, sizes, drawn>>

\* srv.plots <- plot(...) meets the receive of dataHandler h's range loop
Deliver(h) ==
    /\ ~exited
    /\ runPc \in {"publish", "final"}
    /\ hpc[h] = "range"
    /\ hpc' = [hpc EXCEPT ![h] = "send"]
    /\ hdata' = [hdata EXCEPT ![h] = snap]
    /\ got' = [got EXCEPT ![h] = Append(@, snap.n)]
    /\ snap' = NoPlot
    /\ runPc' = IF runPc = "publish" THEN "select" ELSE "sleep"
    /\ finalGot' = (finalGot \/ runPc = "final")
    /\ hstale' = [g \in Subs |-> g = h /\ hstale[h]]
    /\ UNCHANGED <<n, in, out, cpc, carg, exited, handed, started,
                   renders, hearly, served, quitInvoked, quitReturned, preQuit,
                   probe, fired, sizes, drawn>>

\* time.Sleep(1 * time.Second) elapses
RunSleep ==
    /\ ~exited
    /\ runPc = "sleep"
    /\ runPc' = "quit"
    /\ UNCHANGED <<n, in, out, snap, cpc, carg, hpc, hdata, exited,
                   handed, started, renders, got, hearly, hstale, served, quitInvoked,
                   quitReturned, preQuit, finalGot, probe, fired, sizes, drawn>>

\* variant: run goes back to its select after srv.quit <- 1
RunQuitLoop(c) ==
    /\ ~exited
    /\ runPc = "quit"
    /\ cpc[c] = "QuitWait"
    /\ runPc' = "select"
    /\ cpc' = [cpc EXCEPT ![c] = "idle"]
    /\ quitReturned' = TRUE
    /\ UNCHANGED <<n, in, out, snap, carg, hpc, hdata, exited, handed,
                   started, renders, got, hearly, hstale, served, quitInvoked, preQuit,
                   finalGot, probe, fired, sizes, drawn>>

\* srv.quit <- 1 meets <-srv.quit of the Quit call of c; run returns and
\* Quit returns
RunQuit(c) ==
    /\ ~exited
    /\ runPc = "quit"
    /\ cpc[c] = "QuitWait"
    /\ runPc' = "returned"
    /\ cpc' = [cpc EXCEPT ![c] = "idle"]
    /\ quitReturned' = TRUE
    /\ UNCHANGED <<n, in, out, snap, carg, hpc, hdata, exited, handed,
                   started, renders, got, hearly, hstale, served, quitInvoked, preQuit,
                   finalGot, probe, fired, sizes, drawn>>

----------------------------------------------------------------------------
\* The web side

\* variant: a dataHandler is handed the current plot as soon as it attaches
AttachReplay(h) ==
    /\ ~exited
    /\ hpc[h] = "none"
    /\ hpc' = [hpc EXCEPT ![h] = "send"]
    /\ hdata' = [hdata EXCEPT ![h] = plot(n, in, out)]
    /\ got' = [got EXCEPT ![h] = Append(@, n)]
    /\ hearly' = [hearly EXCEPT ![h] = (started = 0)]
    /\ hstale' = [hstale EXCEPT ![h] = TRUE]
    /\ UNCHANGED <<n, in, out, runPc, snap, cpc, carg, exited,
                   handed, started, renders, served, quitInvoked,
                   quitReturned, preQuit, finalGot, probe, fired, sizes, drawn>>

\* a browser opens ws://host/data: a dataHandler starts its range loop
Attach(h) ==
    /\ ~exited
    /\ hpc[h] = "none"
    /\ hpc' = [hpc EXCEPT ![h] = "range"]
    /\ hearly' = [hearly EXCEPT ![h] = (started = 0)]
    /\ hstale' = [hstale EXCEPT ![h] = (runPc \in {"publish", "final"})]
    /\ UNCHANGED <<n, in, out, runPc, snap, cpc, carg, hdata, exited,
                   handed, started, renders, got, served, quitInvoked,
                   quitReturned, preQuit, finalGot, probe, fired, sizes, drawn>>

\* websocket.JSON.Send(ws, data) returns, with or without an error (which is
\* only logged): the loop goes on to its next receive
HandlerSend(h) ==
    /\ ~exited
    /\ hpc[h] = "send"
    /\ hpc' = [hpc EXCEPT ![h] = "range"]
    /\ hdata' = [hdata EXCEPT ![h] = NoPlot]
    /\ hstale' = [hstale EXCEPT ![h] = FALSE]
    /\ UNCHANGED <<n, in, out, runPc, snap, cpc, carg, exited, handed, started,
                   renders, got, hearly, served, quitInvoked, quitReturned,
                   preQuit, finalGot, probe, fired, sizes, drawn>>

\* plotHandle: the page is written, then select { case srv.wait <- 1: default: }
\* the send happens only if a Wait call is blocked in <-srv.wait right now
PlotHandle(callers) ==
    /\ ~exited
    /\ served < MaxPages
    /\ served' = served + 1
    /\ \/ \E c \in callers :
             /\ cpc[c] = "Wait"
             /\ cpc' = [cpc EXCEPT ![c] = "idle"]
       \/ /\ \A c \in Callers : cpc[c] # "Wait"
          /\ cpc' = cpc
    /\ UNCHANGED <<n, in, out, runPc, snap, carg, hpc, hdata, exited,
                   handed, started, renders, got, hearly, hstale, quitInvoked,
                   quitReturned, preQuit, finalGot, probe, fired, sizes, drawn>>

----------------------------------------------------------------------------
\* The cadence decision on its own

CadenceInputs ==
    (1 .. 120) \cup {999, 1000, 1100, 9999, 10000, 99999, 100000, 999999,
                     1000000, 2000000, 9999999, 10000000, 10000001, 15000000,
                     20000000, 99999999, 100000000, 110000000, 200000000,
                     1000000000}

Decide ==
    /\ fired = "unset"
    /\ fired' = IF shouldSnapshot(probe) THEN "snapshot" ELSE "none"
    /\ UNCHANGED <<progVars, probe, sizes, drawn>>

CadenceInit ==
    /\ ProgInit
    /\ probe \in CadenceInputs
    /\ fired = "unset"
    /\ sizes = <<0, 0, 0>>
    /\ drawn = NotDrawn

\* plot() on its own, on set sizes around its two caps; n = len(in) + len(out)
\* as run keeps it
SetSizes ==
    {0, 1, 2, 3, 499999, 500000, 500001, 999999, 1000000, 1000001, 2000000}

Draw ==
    /\ drawn = NotDrawn
    /\ drawn' = plotSizes(sizes[1], sizes[2], sizes[3])
    /\ UNCHANGED <<progVars, probe, fired, sizes>>

SizesInit ==
    /\ ProgInit
    /\ probe = 0
    /\ fired = "unset"
    /\ \E li \in SetSizes, lo \in SetSizes : sizes = <<li + lo, li, lo>>
    /\ drawn = NotDrawn

----------------------------------------------------------------------------
NextOf(callers, subs, samples, maxPlots) ==
    \/ \E c \in callers, v \in samples : CallPlot(c, v, maxPlots)
    \/ \E c \in callers : CallWait(c)
    \/ \E c \in callers : CallQuit(c)
    \/ \E c \in callers : RunRecv(c)
    \/ \E c \in callers : RunDone(c)
    \/ \E h \in subs : Deliver(h)
    \/ RunSleep
    \/ \E c \in callers : RunQuit(c)
    \/ \E h \in subs : Attach(h)
    \/ \E h \in subs : HandlerSend(h)
    \/ PlotHandle(callers)

Next == NextOf(Callers, Subs, Samples, MaxPlots)

Spec == Init /\ [][Next]_vars

NextLong == NextOf(LongCallers, LongSubs, LongSamples, MaxLong)

SpecLong == Init /\ [][NextLong]_vars

NextSamples == NextOf(LongCallers, LongSubs, AllSamples, MaxSamplePlots)

SpecSamples == Init /\ [][NextSamples]_vars

SpecCadence == CadenceInit /\ [][Decide]_vars

SpecSizes == SizesInit /\ [][Draw]_vars

----------------------------------------------------------------------------
\* Helpers of the properties

IsPrefix(s, t) == Len(s) <= Len(t) /\ SubSeq(t, 1, Len(s)) = s

Count(v, s) == Cardinality({i \in 1 .. Len(s) : s[i] = v})

Publishing == runPc \in {"publish", "final"}

\* number of wplots received by the dataHandlers of S
RECURSIVE Received(_)
Received(S) ==
    IF S = {} THEN 0
    ELSE LET h == CHOOSE g \in S : TRUE
         IN  Len(got[h]) + Received(S \ {h})

\* the largest power of ten that is at most k (k >= 1)
RECURSIVE DecadeBase(_)
DecadeBase(k) == IF k < 10 THEN 1 ELSE 10 * DecadeBase(k \div 10)

\* the decade rule: for n in [10^k, 10^(k+1)), n mod 10^k = 0
CadenceRule(k) == k % DecadeBase(k) = 0

CadCount(k) == Cardinality({j \in 1 .. k : CadenceRule(j)})

\* the counts in 1 .. k that satisfy the decade rule, in increasing order
RECURSIVE CadSeq(_)
CadSeq(k) ==
    IF k = 0 THEN <<>>
    ELSE IF CadenceRule(k) THEN Append(CadSeq(k - 1), k)
    ELSE CadSeq(k - 1)

----------------------------------------------------------------------------
C2_DecadeRule ==
    fired # "unset" => ((fired = "snapshot") <=> CadenceRule(probe))

\* C3 as stated: a wplot published while a set of dataHandlers is attached is
\* delivered to each of them: when run's send on srv.plots completes, every
\* attached dataHandler has received that wplot.
C3_FanOut ==
    [][ (Publishing /\ runPc' # runPc) =>
           \A h \in Subs :
              hpc[h] # "none" => got'[h] = Append(got[h], snap.n)
      ]_vars

\* C4: in every state (so whenever run waits in its select or calls plot):
\* n is the number of samples received from Plot calls, it grows by exactly
\* one per sample received and never decreases; every received sample is in
\* exactly one of in and out, so len(in) + len(out) = n; and in and out only
\* grow at their end.
C4_Step ==
    /\ n' = Len(handed')
    /\ n' = started' - Cardinality({c \in Callers : cpc'[c] = "Plot"})
    /\ n' - n = Len(handed') - Len(handed)
    /\ n' >= n
    /\ Len(in') + Len(out') = n'
    /\ \A v \in AllSamples :
          Count(v, in') + Count(v, out') = Count(v, handed')
    /\ IsPrefix(in, in')
    /\ IsPrefix(out, out')

C4_Counts == [][C4_Step]_vars

\* C4 witness: two callers called Plot concurrently; one sample has been
\* received and went to out, run is publishing, the other caller is still
\* blocked in Plot.
C4_Witness ==
    /\ n = 1 /\ in = <<>> /\ out = << <<2, 0>> >>
    /\ runPc = "publish"
    /\ cpc["main"] = "idle"
    /\ cpc["worker"] = "Plot"

C5_Inside(v) == v[1] * v[1] + v[2] * v[2] < 4

C5_NotInside(v) == ~C5_Inside(v)

\* C5: in is the received samples with x*x + y*y < 1, in the order received,
\* and out is all the others, a point on the circle included; after (0,0),
\* (0.5,0.5), (2,2): n = 3, in = [(0,0),(0.5,0.5)], out = [(2,2)].
C5_Classified ==
    /\ in = SelectSeq(handed, C5_Inside)
    /\ out = SelectSeq(handed, C5_NotInside)
    /\ \A i \in 1 .. Len(handed) : handed[i] = <<2, 0>> => Count(<<2, 0>>, out) > 0
    /\ handed = << <<0, 0>>, <<1, 1>>, <<4, 4>> >> =>
          /\ n = 3
          /\ in = << <<0, 0>>, <<1, 1>> >>
          /\ out = << <<4, 4>> >>

\* C5 witness: the three samples of the example have been received.
C5_Witness ==
    /\ handed = << <<0, 0>>, <<1, 1>>, <<4, 4>> >>
    /\ n = 3
    /\ runPc = "select"

\* C5, the point on the circle: (1,0) has been received after an inner point.
C5_OnCircle ==
    /\ handed = << <<1, 1>>, <<2, 0>> >>
    /\ out = << <<2, 0>> >>

----------------------------------------------------------------------------
\* C6: Quit forces a last snapshot whatever the cadence says: when run takes
\* the Quit request it calls plot() with the current n and the full sets and
\* sends the result on srv.plots (unless plot() ends the process); and Quit
\* has returned only if that wplot was received by a dataHandler and run has
\* sent on srv.quit and returned.
C6_Step ==
    /\ \A c \in Callers :
          (cpc[c] = "QuitDone" /\ cpc'[c] # "QuitDone") =>
             /\ renders' = renders + 1
             /\ n' = n /\ in' = in /\ out' = out
             /\ \/ exited'
                \/ /\ runPc' = "final"
                   /\ snap'.n = n /\ snap'.sin = in /\ snap'.sout = out
                   /\ snap'.pi = <<4 * Len(in), n>>
    /\ runPc' = "final" => ~finalGot'
    /\ quitReturned' => (finalGot' /\ runPc' = "returned")
    /\ (finalGot' /\ ~finalGot) =>
          \E h \in Subs : /\ hdata'[h] = snap
                          /\ snap.n = n /\ snap.sin = in /\ snap.sout = out

C6_ForcedFinal == [][C6_Step]_vars

\* C6 witness: Quit has returned after 11 samples, where the cadence does not
\* fire, and the dataHandler received a wplot tagged 11.
C6_Witness ==
    /\ quitReturned /\ n = 11 /\ ~CadenceRule(11)
    /\ finalGot
    /\ got["ws1"][Len(got["ws1"])] = 11

Alone(h) == \A g \in Subs \ {h} : hpc[g] = "none"

\* C7 as stated: a single dataHandler attached before the first Plot call
\* receives wplots whose n tags are strictly increasing, and once Quit has
\* returned it has received exactly one wplot tagged with the final n.
C7_StrictTags ==
    \A h \in Subs :
       (hearly[h] /\ Alone(h)) =>
          /\ \A i \in 1 .. Len(got[h]) - 1 : got[h][i] < got[h][i + 1]
          /\ quitReturned => Count(n, got[h]) = 1

\* C7 as amended: the tags never decrease and only the final n can repeat:
\* the dataHandler receives each cadence snapshot once, in order, and then
\* the forced final one, so once Quit has returned it has received the final
\* n twice when n >= 1 satisfies the cadence rule and once otherwise.
C7_Tags ==
    \A h \in Subs :
       (hearly[h] /\ Alone(h)) =>
          /\ \A i \in 1 .. Len(got[h]) - 1 :
                \/ got[h][i] < got[h][i + 1]
                \/ /\ got[h][i] = got[h][i + 1]
                   /\ i + 1 = Len(got[h])
                   /\ finalGot /\ got[h][i] = n
          /\ \A i \in 1 .. Len(got[h]) :
                got[h][i] = n \/ (got[h][i] >= 1 /\ CadenceRule(got[h][i]))
          /\ quitReturned =>
                /\ got[h] = Append(CadSeq(n), n)
                /\ Count(n, got[h]) = IF n >= 1 /\ CadenceRule(n) THEN 2 ELSE 1

\* C7 witness: the run Wait; Plot * 10; Quit is over and the dataHandler,
\* attached before the first Plot, received 1 .. 10 and then 10 again.
C7_Witness ==
    /\ quitReturned /\ hearly["ws1"] /\ served > 0
    /\ got["ws1"] = <<1, 2, 3, 4, 5, 6, 7, 8, 9, 10, 10>>

\* C8 as stated: after N >= 1 samples and Quit, plot() was called once per n
\* in 1 .. N that satisfies the cadence rule, plus once more only when N does
\* not satisfy it.
C8_NoExtraFinal ==
    (quitReturned /\ n >= 1) =>
       renders = CadCount(n) + (IF CadenceRule(n) THEN 0 ELSE 1)

\* C8 as amended: after N >= 1 samples and Quit, plot() was called once per n
\* in 1 .. N that satisfies the cadence rule, plus once more for the forced
\* final snapshot in every case.
C8_Renders ==
    (quitReturned /\ n >= 1) => renders = CadCount(n) + 1

\* C8 witness: Quit has returned after 10 samples, where the cadence fired,
\* and plot() was called 11 times.
C8_Witness ==
    quitReturned /\ n = 10 /\ CadenceRule(10) /\ renders = 11

\* C9 as stated: when Quit has returned, every Plot call that began before
\* Quit was invoked has been counted in n: none is still blocked.
C9_Drained ==
    quitReturned => \A c \in Callers : ~(cpc[c] = "Plot" /\ preQuit[c])

\* C9 as amended: when Quit has returned, n counts exactly the samples of the
\* Plot calls that have returned; once run has taken the Quit request it
\* receives no further sample, so a Plot call still blocked then is never
\* counted and its caller stays blocked.
C9_Step ==
    /\ quitReturned' =>
          n' = started' - Cardinality({c \in Callers : cpc'[c] = "Plot"})
    /\ (runPc \in {"final", "sleep", "quit", "returned"} \/ quitReturned) =>
          /\ n' = n
          /\ \A c \in Callers : cpc[c] = "Plot" => cpc'[c] = "Plot"

C9_NotDrained == [][C9_Step]_vars

\* C9 witness: Quit has returned while a Plot call that began before Quit was
\* invoked is still blocked, its sample not counted.
C9_Witness ==
    /\ quitReturned /\ runPc = "returned"
    /\ cpc["worker"] = "Plot" /\ preQuit["worker"]
    /\ n = 1 /\ started = 2

\* C10 as stated: once a page request has been served, a call of Wait returns
\* without any further request, also when the request was served before Wait
\* was called: a caller blocked in Wait after a served request can return by
\* a step that serves no request.  (The other half, that Wait never returns
\* before a request was served, holds: only plotHandle sends on srv.wait.)
C10_Latched ==
    \A c \in Callers :
       (~exited /\ cpc[c] = "Wait" /\ served > 0) =>
          ENABLED (Next /\ cpc'[c] = "idle" /\ served' = served)

----------------------------------------------------------------------------
\* C11 as stated: a second call of Quit, made after the first has returned,
\* returns to its caller: with one caller, whenever that caller is in Quit
\* again after a Quit has returned, some step takes it past srv.done <- 1.
C11_SecondQuitReturns ==
    \A c \in LongCallers :
       (~exited /\ quitReturned /\ cpc[c] = "QuitDone") =>
          ENABLED (NextLong /\ cpc'[c] # "QuitDone")

\* C12: once a Quit has returned, a further call of Quit changes neither n
\* nor in nor out, and no further wplot is rendered, sent or received.
C12_Step ==
    quitReturned =>
       /\ n' = n /\ in' = in /\ out' = out
       /\ renders' = renders
       /\ snap' = snap /\ runPc' = runPc
       /\ got' = got /\ finalGot' = finalGot

C12_SecondQuitFrame == [][C12_Step]_vars

\* C12 witness: after two samples and a Quit that returned, the caller has
\* called Quit a second time.
C12_Witness ==
    /\ quitReturned /\ cpc["main"] = "QuitDone"
    /\ n = 2 /\ renders = 3

\* C13 as stated: after the forced final publish the bus is closed, and every
\* attached dataHandler that has sent its pending wplot sees the end of the
\* stream and leaves its loop: once Quit has returned, a dataHandler waiting
\* in its receive can take a step that ends its range loop.
C13_StreamEnds ==
    \A h \in Subs :
       (~exited /\ quitReturned /\ hpc[h] = "range") =>
          ENABLED (Next /\ hpc'[h] \notin {"range", "send"})

\* C14 as stated: when plot() fails while producing a snapshot (it was called
\* and no wplot came back), the error is logged and run keeps running, back
\* at its select.
C14_KeepsRunning ==
    [][ (renders' # renders /\ snap' = NoPlot) =>
           (~exited' /\ runPc' = "select") ]_vars

\* C14 as amended: when plot() fails, its log.Fatal ends the process: nothing
\* moves afterwards, so no later Plot call is accepted or counted.
C14_FatalStops ==
    [][ /\ ~exited
        /\ (renders' # renders /\ snap' = NoPlot) => exited' ]_vars

\* C14 witness: plot() failed on the first sample and a later Plot call is
\* blocked for good.
C14_Witness ==
    /\ exited /\ n = 1 /\ renders = 1
    /\ cpc["worker"] = "Plot"

\* C15 as stated: a dataHandler that attaches after some snapshots were
\* rendered never receives one of them: it is served only snapshots rendered
\* after it attached, so it never holds a wplot rendered before it attached.
C15_OnlyLater ==
    \A h \in Subs : ~(hpc[h] = "send" /\ hstale[h])

\* C15 as amended: nothing is replayed to a late dataHandler, but run's
\* pending send is not withdrawn either: every wplot a dataHandler receives is
\* the one run is blocked sending at that moment (the snapshot of the current
\* n), the hand-over ends run's send, and a wplot rendered before the
\* dataHandler attached can only be the first one it receives.
C15_Step ==
    \A h \in Subs :
       got'[h] # got[h] =>
          /\ Publishing
          /\ runPc' \in {"select", "sleep"}
          /\ snap.n = n
          /\ got'[h] = Append(got[h], snap.n)
          /\ hdata'[h] = snap
          /\ hstale[h] => got[h] = <<>>

C15_PendingOnly == [][C15_Step]_vars

\* C15 witness: ws1 attached while run was blocked sending the snapshot of
\* n = 1, and received it.
C15_Witness ==
    /\ hpc["ws1"] = "send" /\ hstale["ws1"]
    /\ hdata["ws1"].n = 1 /\ got["ws1"] = <<1>>
    /\ ~hearly["ws1"]

\* C16 as stated: plot() gets the current n and both sets, draws the first
\* min(M, |set|) points of each set with one and the same cap M for the inner
\* and the outer set, and computes the estimate from the full inner size and n.
C16_SameCap ==
    drawn # NotDrawn =>
       /\ drawn.n = sizes[1]
       /\ drawn.pi = <<4 * sizes[2], sizes[1]>>
       /\ \E M \in {pmax, pmax \div 2} :
             /\ drawn.sin = min(M, sizes[2])
             /\ drawn.sout = min(M, sizes[3])

\* C16 as amended: the caps differ: plot() draws the first min(10^6, |in|)
\* inner points and the first min(500000, |out|) outer points; the title
\* carries n and the estimate 4 * |in| / n with the full inner size.
C16_TwoCaps ==
    drawn # NotDrawn =>
       /\ drawn.n = sizes[1]
       /\ drawn.pi = <<4 * sizes[2], sizes[1]>>
       /\ drawn.sin = min(1000000, sizes[2])
       /\ drawn.sout = min(500000, sizes[3])

\* C16 witness: with more than 10^6 points in each set, 10^6 inner and
\* 500000 outer points are drawn, and the estimate uses all inner points.
C16_Witness ==
    /\ drawn # NotDrawn
    /\ sizes = <<2000001, 1000001, 1000000>>
    /\ drawn.sin = 1000000 /\ drawn.sout = 500000
    /\ drawn.pi = <<4000004, 2000001>>

\* C17: the last branch of the switch is guarded by n > 10^7: at n = 10^7
\* no branch fires, and for every n > 10^7 a snapshot is produced exactly
\* when n mod 10^7 = 0.
C17_TopBranch ==
    fired # "unset" =>
       /\ probe = 10000000 => fired = "none"
       /\ probe > 10000000 =>
             (fired = "snapshot" <=> probe % 10000000 = 0)

\* C17 witness: the switch was evaluated at n = 10^7 and nothing fired.
C17_Witness == probe = 10000000 /\ fired = "none"

\* C18: Plot is a rendezvous with run: at the moment a Plot call returns, run
\* is at its select with no wplot in flight, every sample of the Plot calls
\* that returned before is counted and classified, in the order run received
\* them, and every wplot rendered for them has been received by a
\* dataHandler; the returning call hands over exactly one sample.
C18_Step ==
    handed' # handed =>
       /\ runPc = "select" /\ snap = NoPlot
       /\ n = Len(handed)
       /\ in = SelectSeq(handed, Inner)
       /\ out = SelectSeq(handed, LAMBDA v : ~Inner(v))
       /\ Received(Subs) = renders
       /\ \A h \in Subs : \A j \in 1 .. Len(got[h]) : got[h][j] <= Len(handed)
       /\ Len(handed') = Len(handed) + 1
       /\ SubSeq(handed', 1, Len(handed)) = handed

C18_Rendezvous == [][C18_Step]_vars

\* C18 witness: a second Plot call has returned; the wplot of the first
\* sample was received before, the one of the second is being sent.
C18_Witness ==
    /\ Len(handed) = 2 /\ n = 2
    /\ got["ws1"] = <<1>> /\ got["ws2"] = <<>>
    /\ runPc = "publish" /\ snap.n = 2
    /\ cpc["main"] = "idle" /\ cpc["worker"] = "idle"

\* C19: run drops and duplicates no wplot: every wplot rendered is either
\* still being sent by run or was received by exactly one dataHandler (a call
\* of plot() that ended in log.Fatal rendered none); while one is being sent,
\* run accepts no sample and no Quit returns; and a receipt gives the wplot
\* to one dataHandler only.
C19_Count ==
    Received(Subs) + (IF snap # NoPlot THEN 1 ELSE 0)
                   + (IF exited THEN 1 ELSE 0) = renders

C19_Step ==
    /\ snap # NoPlot =>
          /\ n' = n /\ in' = in /\ out' = out /\ handed' = handed
          /\ quitReturned' = quitReturned
          /\ snap' \in {snap, NoPlot}
          /\ (snap' = NoPlot) <=> (got' # got)
    /\ got' # got =>
          /\ snap # NoPlot
          /\ \E h \in Subs :
                /\ got'[h] = Append(got[h], snap.n)
                /\ \A g \in Subs \ {h} : got'[g] = got[g]

C19_ExactlyOnce == []C19_Count /\ [][C19_Step]_vars

\* C19 witness: two wplots were rendered and two dataHandlers were waiting;
\* each wplot went to one of them only.
C19_Witness ==
    /\ renders = 2 /\ snap = NoPlot /\ ~exited
    /\ got["ws1"] = <<1>> /\ got["ws2"] = <<2>>

\* C20 as stated: every call of plot() is made with n >= 1, so that
\* 4 * len(in) / n never has a zero divisor, also when Quit is called before
\* any Plot.
C20_NonZeroN ==
    [][ renders' # renders => n' >= 1 ]_vars

====
